---- MODULE Spec2Model ----
(***************************************************************************)
(* A state-machine model of scrape_canarias_emails.py: endpoint discovery  *)
(* (detect_list_endpoint_and_template), pagination (fetch_all_centers),    *)
(* row parsing (parse_centers), concurrent detail extraction               *)
(* (extract_email_from_detail under main.worker) and the CSV output of     *)
(* main.                                                                   *)
(*                                                                         *)
(* Conventions.                                                            *)
(*  - Python's None is the empty sequence <<>>, an int n is <<n>>.         *)
(*  - A string of markup is a sequence of tokens: a number word, another   *)
(*    word, a whitespace run or a tag (with or without an href).           *)
(*  - An e-mail address is a positive integer, ordered as Python orders    *)
(*    the strings (sorted()); "" is NoEmail.                               *)
(*  - Python's hash() is taken to be injective: a page fingerprint is the  *)
(*    sequence of the stringified first cells it hashes.                   *)
(***************************************************************************)
EXTENDS Integers, Sequences, FiniteSets, TLC

\* ---------------------------------------------------------------- constants

\* CONCURRENCY = 6
CONCURRENCY == 6
\* candidates[:200]
PROBE_LIMIT == 200
\* range(0, len(tasks), 100)
CHUNK == 100
\* requested_length = 500
REQUESTED_LENGTH == 500
\* rows[:10] in fingerprint
FP_ROWS == 10
\* the only status the code accepts
HTTP_OK == 200
\* the email of a record with no address: ""
NoEmail == 0
\* range(min(cnt, 30)) over the mailto links
MAILTO_LIMIT == 30

\* ------------------------------------------------------------------- bounds

\* page requests a free backend is asked for before the model stops looking
MaxFetch == 2
\* rows in one page of the free backend
MaxPageLen == 2
\* rows of the honest backend's listing, and its page size
MaxTotal == 6
MaxPage == 3
\* requests the browser is seen to issue (the long traffic apart)
MaxTraffic == 3
\* records of the detail pool
NumCenters == 7
\* xhr/fetch responses of one detail page
\* rows of a listing handed to parse_centers
MaxRows == 2
\* tasks of the first batch still to run, and records of the second batch
BatchTail == 3
SecondBatch == 2
\* rows of the listing of the backend that answers any window of it
LooseRows == 2
MaxXhr == 2

\* ------------------------------------------------------------------ helpers

None == <<>>
Some(n) == <<n>>
Truthy(x) == x # None /\ x[1] # 0
\* Python's `a or b`
PyOr(a, b) == IF Truthy(a) THEN a ELSE b
Max(a, b) == IF a >= b THEN a ELSE b
Min(a, b) == IF a <= b THEN a ELSE b

RECURSIVE Concat(_)
Concat(ss) == IF ss = <<>> THEN <<>> ELSE Head(ss) \o Concat(Tail(ss))

\* ------------------------------------------------------------------ markup

Num(k) == [t |-> "num", n |-> k]
Word(s) == [t |-> "word", w |-> s]
WS == [t |-> "ws"]
Tag == [t |-> "tag", href |-> None]
Link(p) == [t |-> "tag", href |-> Some(p)]

\* re.sub(r"<[^>]+>", " ", raw)
StripTags(s) == [i \in 1..Len(s) |-> IF s[i].t = "tag" THEN WS ELSE s[i]]

RECURSIVE LStrip(_)
LStrip(s) == IF s # <<>> /\ Head(s).t = "ws" THEN LStrip(Tail(s)) ELSE s

RECURSIVE RStrip(_)
RStrip(s) ==
    IF s # <<>> /\ s[Len(s)].t = "ws" THEN RStrip(SubSeq(s, 1, Len(s) - 1)) ELSE s

\* str.strip()
Strip(s) == RStrip(LStrip(s))

\* re.sub(r"\s+", " ", s)
RECURSIVE Collapse(_)
Collapse(s) ==
    IF Len(s) < 2 THEN s
    ELSE IF s[1].t = "ws" /\ s[2].t = "ws" THEN Collapse(Tail(s))
    ELSE <<Head(s)>> \o Collapse(Tail(s))

\* the cleaning of one cell: strip the tags, strip, collapse, strip
Clean(cell) == Strip(Collapse(Strip(StripTags(cell))))

\* re.search(r'href="([^"]+)"', raw): the first href of the cell, or None
RECURSIVE FirstHref(_)
FirstHref(s) ==
    IF s = <<>> THEN None
    ELSE IF Head(s).t = "tag" /\ Head(s).href # None THEN Head(s).href
    ELSE FirstHref(Tail(s))

\* str.isdigit()
IsDigit(s) == s # <<>> /\ \A i \in 1..Len(s) : s[i].t = "num"

\* urljoin(BASE, href) of a relative href
UrlJoin(href) == <<"BASE", href>>

\* f"{BASE}/registroestatalentidadesformacion/centro/{codigo}"
TemplateUrl_NoPath(codigo) == <<"BASE", codigo>>
TemplateUrl(codigo) == <<"BASE", "/registroestatalentidadesformacion/centro/", codigo>>

\* --------------------------------------------------------------------- rows

ListRow(cells) == [kind |-> "list", cells |-> cells]
DictRow(code, name) == [kind |-> "dict", cells |-> <<code, name>>]

\* the row of the honest backend's listing with code k
CenterRow(k) == ListRow(<<<<Num(k)>>, <<Word("IES"), WS, Num(k)>>>>)

\* one centre of parse_centers: None when the row is dropped
ParseRow(row) ==
    LET isList == row.kind = "list" /\ Len(row.cells) >= 2
        raw0 == IF isList THEN row.cells[1] ELSE <<>>
        raw1 == IF isList THEN row.cells[2] ELSE <<>>
        codigo == Clean(raw0)
        nombre == Clean(raw1)
        href == FirstHref(raw0)
        href2 == IF isList THEN FirstHref(row.cells[Len(row.cells)]) ELSE None
        url0 == IF href # None THEN UrlJoin(href[1])
                ELSE IF href2 # None THEN UrlJoin(href2[1])
                ELSE <<>>
        ficha_url == IF url0 = <<>> /\ IsDigit(codigo) THEN TemplateUrl(codigo) ELSE url0
    IN  IF codigo # <<>> /\ nombre # <<>>
        THEN Some([codigo |-> codigo, nombre |-> nombre, ficha_url |-> ficha_url])
        ELSE None

RECURSIVE parse_centers(_)
parse_centers(rows) ==
    IF rows = <<>> THEN <<>> ELSE ParseRow(Head(rows)) \o parse_centers(Tail(rows))

\* ----------------------------------------------------------------- payloads

Payload(shape, key, rows, rf, rt) ==
    [shape |-> shape, key |-> key, rows |-> rows, recordsFiltered |-> rf, recordsTotal |-> rt]

is_dt_payload(obj) == obj.shape = "dict" /\ obj.key = "data"

rows_from_payload(obj) ==
    IF obj.shape = "dict" /\ obj.key = "data" THEN obj.rows
    ELSE IF obj.shape = "dict" /\ obj.key \in {"items", "results", "content"} THEN obj.rows
    ELSE IF obj.shape = "list" THEN obj.rows
    ELSE <<>>

\* first_payload.get("recordsFiltered") or first_payload.get("recordsTotal")
TotalOf(obj) ==
    IF obj.shape = "dict" THEN PyOr(obj.recordsFiltered, obj.recordsTotal) ELSE None

\* str(r[0]) if isinstance(r, list) and r else str(r)
FpKey(r) == IF r.kind = "list" /\ r.cells # <<>> THEN <<"cell", r.cells[1]>> ELSE <<"row", r>>

\* hash("|".join(... for r in rows[:10]))
fingerprint(rows) == [i \in 1..Min(Len(rows), FP_ROWS) |-> FpKey(rows[i])]

\* ------------------------------------------------------------ request bodies

Param(k, v) == [k |-> k, v |-> v, int |-> TRUE]
TextParam(k) == [k |-> k, v |-> 0, int |-> FALSE]

\* the text key= occurs at parameter k: k is key, or a longer name that ends with it
NameEnds(k, key) == k = key \/ (k = "restart" /\ key = "start")

\* f"{key}=" in postdata
HasParam(postdata, key) == \E i \in 1..Len(postdata) : NameEnds(postdata[i].k, key)

\* re.sub rewrites the value after every occurrence of key=
replace_param(postdata, key, value) ==
    IF ~HasParam(postdata, key) THEN Append(postdata, Param(key, value))
    ELSE [i \in 1..Len(postdata) |->
            IF NameEnds(postdata[i].k, key) THEN Param(postdata[i].k, value) ELSE postdata[i]]

\* the value of the first parameter named key, None when there is none
RECURSIVE ParamValue(_, _)
ParamValue(postdata, key) ==
    IF postdata = <<>> THEN None
    ELSE IF Head(postdata).k = key
         THEN (IF Head(postdata).int THEN Some(Head(postdata).v) ELSE None)
    ELSE ParamValue(Tail(postdata), key)

\* re.search(r"(?:^|&)draw=([^&]+)", post_template), then int()
DrawOf(postdata) == ParamValue(postdata, "draw")

\* any(k in post_template for k in ("start=", "length=", "draw=")) and method == "POST"
IsDt_AnyPost(postdata, method) == method = "POST"
IsDt(postdata, method) ==
    (HasParam(postdata, "start") \/ HasParam(postdata, "length") \/ HasParam(postdata, "draw"))
    /\ method = "POST"

\* --------------------------------------------------------------- the backend

\* the listing the free backend serves windows of: a duplicate code (rows 1
\* and 3), a linked code cell, a keyed row and a row with an empty code
FreeData ==
    << ListRow(<<<<Num(1)>>, <<Word("a")>>>>),
       ListRow(<<<<Link("/centro/2"), Num(2), Tag>>, <<Tag, Word("b"), WS, WS, Word("c"), Tag>>>>),
       ListRow(<<<<WS, Num(1), WS>>, <<Word("d")>>, <<Link("/centro/1")>>>>),
       DictRow(<<Num(3)>>, <<Word("e")>>),
       ListRow(<<<<Tag>>, <<Word("f")>>>>) >>

Window(data, off, len) == SubSeq(data, off + 1, Min(off + len, Len(data)))

Windows(data, maxlen) == {Window(data, o, l) : o \in 0..Len(data), l \in 0..maxlen}

Totals == { <<None, None>>, <<Some(0), Some(3)>>, <<None, Some(0)>> }

Response(kind, status, json, payload) ==
    [kind |-> kind, status |-> status, json |-> json, payload |-> payload]

NoPayload == Payload("scalar", "none", <<>>, None, None)

\* what a 200 JSON answer of the free backend may hold
FreePayloads ==
    {Payload("dict", "data", w, t[1], t[2]) : w \in Windows(FreeData, MaxPageLen), t \in Totals}
    \cup {Payload("dict", "items", w, None, None) : w \in Windows(FreeData, 1)}
    \cup {Payload("list", "none", w, None, None) : w \in Windows(FreeData, 1)}
    \cup {Payload("dict", "none", <<>>, None, None), NoPayload}

FreeResponses ==
    {Response("throw", 0, FALSE, NoPayload),
     Response("http", 500, FALSE, NoPayload),
     Response("http", 500, TRUE, Payload("dict", "data", Window(FreeData, 1, 1), None, None)),
     Response("http", HTTP_OK, FALSE, NoPayload)}
    \cup {Response("http", HTTP_OK, TRUE, p) : p \in FreePayloads}

\* the honest backend: it honours the offset, ignores the requested length and
\* answers pages of `size` rows of its listing, with the listing's length as total
HonestResponse(data, size, off) ==
    Response("http", HTTP_OK, TRUE,
             Payload("dict", "data", Window(data, off, size), Some(Len(data)), Some(Len(data))))

\* ---------------------------------------------------------------- discovery

\* a request the browser issued: what its URL contains, its method and body
Request(rt, host, app, kw, method, pd) ==
    [id |-> 0, resource_type |-> rt, host |-> host, app |-> app, kw |-> kw,
     method |-> method, post_data |-> pd]

\* on_request: what is captured
IsCaptured(req) == req.resource_type \in {"xhr", "fetch"} \/ req.method = "POST"

\* captured, in observation order; id is the place in the traffic
Observe(traffic) ==
    SelectSeq([i \in 1..Len(traffic) |-> [traffic[i] EXCEPT !.id = i]], IsCaptured)

score(req) ==
    (IF req.host THEN 3 ELSE 0)
    + (IF req.app THEN 2 ELSE 0)
    + (IF req.kw THEN 2 ELSE 0)
    + (IF req.method = "POST" THEN 1 ELSE 0)
    + (IF HasParam(req.post_data, "draw") \/ HasParam(req.post_data, "start")
          \/ HasParam(req.post_data, "length") THEN 3 ELSE 0)

\* sorted(captured, key=score, reverse=True): a stable sort, so of two
\* requests the one of the higher score comes first, and of two of the same
\* score the one observed first
Before_TiesReversed(a, b) == score(a) > score(b) \/ (score(a) = score(b) /\ a.id > b.id)
Before(a, b) == score(a) > score(b) \/ (score(a) = score(b) /\ a.id < b.id)

SortByScore(s) ==
    LET n == Len(s)
        rank == [i \in 1..n |-> 1 + Cardinality({j \in 1..n : Before(s[j], s[i])})]
    IN  [k \in 1..n |-> s[CHOOSE i \in 1..n : rank[i] = k]]

\* candidates[:200]
Budget(s) == SubSeq(s, 1, Min(Len(s), PROBE_LIMIT))

\* line 167-176: the answer that makes the prober return
Accepts(resp) ==
    /\ resp.kind = "http" /\ resp.status = HTTP_OK /\ resp.json
    /\ (is_dt_payload(resp.payload) \/ Len(rows_from_payload(resp.payload)) > 0)

\* ------------------------------------------------------------ detail pages

Plain(e) == [t |-> "plain", e |-> e]
Obf(e) == [t |-> "obf", e |-> e]
Noise == [t |-> "noise"]

\* EMAIL_RE.finditer and OBFUSCATED_RE.finditer over a text
extract_emails(text) ==
    {text[i].e : i \in {j \in 1..Len(text) : text[j].t \in {"plain", "obf"}}}

\* the mailto links whose address EMAIL_RE.fullmatch accepts, among the first 30
MailtoEmails(links) ==
    {links[i].addr : i \in {j \in 1..Min(Len(links), MAILTO_LIMIT) : links[j].wellformed}}

Mailto(addr, wellformed) == [addr |-> addr, wellformed |-> wellformed]

XhrResponse(id, rt, status, big, body) ==
    [id |-> id, resource_type |-> rt, status |-> status, big |-> big, body |-> body]

\* a detail page: whether it loads ("yes", "no", "maybe"), and what it holds
Page(up, mailto, text, html, xhr) ==
    [up |-> up, mailto |-> mailto, text |-> text, html |-> html, xhr |-> xhr]

NoPage == Page("no", <<>>, <<>>, <<>>, {})

\* on_response: what one response adds to emails
ResponseEmails(r) ==
    IF r.resource_type \notin {"xhr", "fetch"} THEN {}
    ELSE IF r.status # HTTP_OK THEN {}
    ELSE IF r.big THEN {}
    ELSE extract_emails(r.body)

MinOf(S) == CHOOSE x \in S : \A y \in S : x <= y

\* sorted(emails)[0] if emails else ""
PickFirst(found) == IF found = {} THEN NoEmail ELSE MinOf(found)

VARIABLES
    pc,                \* where main is
    error,             \* the function an exception escaped from, "" if none
    backend,           \* [mode, size]: the listing server; honest, flaky (honest
                       \* or failing), loose (any window of data, no total) or free
    data,              \* the listing the server holds
    probe_mode,        \* how the site answers replays: "free", "down", "err"
    site,              \* the detail pages, by URL
    traffic,           \* the requests the browser issues while the filter is applied
    captured, candidates,
    probe_i,           \* the place in candidates of the next replay
    replays,           \* the replays made: <<[id, resp]>>
    req_template,      \* [method, post_data] of the chosen request
    first_payload,     \* the first page, as the prober handed it over
    all_rows, total, page_size_real, start, draw, seen_fingerprints,
    sent,              \* the page requests issued: <<[start, length, draw, body]>>
    last,              \* the answer to the last page request
    pages,             \* the pages whose rows were kept, the first included
    stop,              \* why pagination ended, "" while it runs
    centers,           \* parse_centers(rows)
    chunk_start,       \* tasks gathered so far
    sem,               \* permits left in the semaphore
    wst,               \* each worker: new, entered, open, closing, done, raised
    emails,            \* each extraction's set of candidates
    email,             \* each extraction's result
    pending,           \* each page's responses whose callback has not run
    overtaken,         \* a worker finished before one of a smaller index
    visits,            \* each extraction's number of page.goto calls
    results,
    csv                \* the rows written, <<>> before

detVars == <<traffic, captured, candidates, probe_i, replays>>
tplVars == <<req_template, first_payload>>
pagVars == <<all_rows, total, page_size_real, start, draw, seen_fingerprints, sent, last,
             pages, stop>>
poolVars == <<chunk_start, sem, wst, emails, email, pending, overtaken, visits, results>>
envVars == <<backend, data, probe_mode, site>>
vars == <<pc, error, backend, data, probe_mode, site, traffic, captured, candidates, probe_i,
          replays, req_template, first_payload, all_rows, total, page_size_real, start, draw,
          seen_fingerprints, sent, last, pages, stop, centers, chunk_start, sem, wst, emails,
          email, pending, overtaken, visits, results, csv>>

\* ------------------------------------------- detect_list_endpoint_and_template

\* lines 95-148: the filter is applied, the requests are captured and ranked;
\* a page step that times out raises
Detect ==
    /\ pc = "detect"
    /\ \E ui_ok \in BOOLEAN :
          IF ui_ok
          THEN /\ captured' = Observe(traffic)
               /\ candidates' = Budget(SortByScore(Observe(traffic)))
               /\ pc' = "probe"
               /\ UNCHANGED error
          ELSE /\ pc' = "failed"
               /\ error' = "detect_list_endpoint_and_template"
               /\ UNCHANGED <<captured, candidates>>
    /\ UNCHANGED <<envVars, traffic, probe_i, replays, tplVars, pagVars, centers, poolVars, csv>>

OffsetOf(postdata) ==
    IF ParamValue(postdata, "start") = None THEN 0 ELSE ParamValue(postdata, "start")[1]

\* the answers the backend may give to a page request with this body
PageResponses(postdata) ==
    IF backend.mode = "honest"
    THEN {HonestResponse(data, backend.size, OffsetOf(postdata))}
    ELSE IF backend.mode = "loose"
    THEN {Response("http", HTTP_OK, TRUE, Payload("dict", "data", w, None, None)) :
             w \in Windows(data, backend.size)}
         \cup {Response("http", 500, FALSE, NoPayload)}
    ELSE IF backend.mode = "flaky"
    THEN {HonestResponse(data, backend.size, OffsetOf(postdata)),
          Response("throw", 0, FALSE, NoPayload),
          Response("http", 500, FALSE, NoPayload)}
    ELSE FreeResponses

\* the answers the site may give to the replay of a captured request
ProbeReplies(req) ==
    IF probe_mode = "down" THEN {Response("throw", 0, FALSE, NoPayload)}
    ELSE IF probe_mode = "err" THEN {Response("http", 500, FALSE, NoPayload)}
    ELSE {Response("throw", 0, FALSE, NoPayload),
          Response("http", 500, FALSE, NoPayload),
          Response("http", HTTP_OK, FALSE, NoPayload),
          Response("http", HTTP_OK, TRUE, Payload("list", "none", <<>>, None, None)),
          Response("http", HTTP_OK, TRUE, Payload("dict", "data", <<>>, None, None))}
         \cup PageResponses(req.post_data)

\* lines 150-183: one candidate is replayed
Probe ==
    /\ pc = "probe"
    /\ probe_i <= Len(candidates)
    /\ LET req == candidates[probe_i]
       IN  \E resp \in ProbeReplies(req) :
              /\ replays' = Append(replays, [id |-> req.id, resp |-> resp])
              /\ IF Accepts(resp)
                 THEN /\ req_template' = [method |-> req.method, post_data |-> req.post_data]
                      /\ first_payload' = resp.payload
                      /\ pc' = "fetch_init"
                      /\ UNCHANGED probe_i
                 ELSE /\ probe_i' = probe_i + 1
                      /\ UNCHANGED <<pc, tplVars>>
    /\ UNCHANGED <<error, envVars, traffic, captured, candidates, pagVars, centers, poolVars, csv>>

\* lines 185-186: no candidate is left
ProbeExhausted_Returns ==
    /\ pc = "probe"
    /\ probe_i > Len(candidates)
    /\ pc' = "fetch_init"
    /\ UNCHANGED <<error, envVars, detVars, tplVars, pagVars, centers, poolVars, csv>>
ProbeExhausted ==
    /\ pc = "probe"
    /\ probe_i > Len(candidates)
    /\ pc' = "failed"
    /\ error' = "detect_list_endpoint_and_template"
    /\ UNCHANGED <<envVars, detVars, tplVars, pagVars, centers, poolVars, csv>>

\* ---------------------------------------------------------- fetch_all_centers

\* lines 194-241: everything before the loop
FetchInit ==
    /\ pc = "fetch_init"
    /\ LET rows == rows_from_payload(first_payload)
           post_template == req_template.post_data
       IN  /\ all_rows' = rows
           /\ total' = TotalOf(first_payload)
           /\ page_size_real' = Max(1, Len(rows))
           /\ draw' = DrawOf(post_template)
           /\ start' = 0
           /\ pages' = <<rows>>
           /\ IF ~IsDt(post_template, req_template.method)
              THEN /\ seen_fingerprints' = {}
                   /\ stop' = "no_template"
                   /\ pc' = "parse"
              ELSE /\ seen_fingerprints' = {fingerprint(rows)}
                   /\ stop' = ""
                   /\ pc' = "fetch"
    /\ UNCHANGED <<error, envVars, detVars, tplVars, sent, last, centers, poolVars, csv>>

\* start += page_size_real
NextStart_Requested(from, size) == from + REQUESTED_LENGTH
NextStart_Same(from, size) == from
NextStart(from, size) == from + size

\* if fp in seen_fingerprints
SeenBefore_Never(fp, seen) == FALSE
SeenBefore(fp, seen) == fp \in seen

\* total is not None and len(all_rows) >= int(total)
Complete_Beyond(t, n) == t # None /\ n > t[1]
Complete(t, n) == t # None /\ n >= t[1]

\* the body of the next page request (lines 246-252)
NextPostData ==
    LET pd0 == replace_param(replace_param(req_template.post_data, "start",
                                           NextStart(start, page_size_real)),
                             "length", REQUESTED_LENGTH)
    IN  IF draw # None THEN replace_param(pd0, "draw", draw[1] + 1) ELSE pd0

\* lines 243-291: one iteration of the loop, answered by resp; a break runs
\* on to the two dumps and the return
FetchStep(resp) ==
    LET postdata == NextPostData
        request == [start |-> ParamValue(postdata, "start"),
                    length |-> ParamValue(postdata, "length"),
                    draw |-> ParamValue(postdata, "draw"),
                    body |-> postdata]
        rows == rows_from_payload(resp.payload)
        fp == fingerprint(rows)
        total1 == IF total = None /\ resp.payload.shape = "dict"
                  THEN TotalOf(resp.payload) ELSE total
        Break(why) == /\ stop' = why
                      /\ pc' = "parse"
                      /\ UNCHANGED <<all_rows, total, page_size_real, seen_fingerprints,
                                     pages, error>>
    IN  /\ start' = NextStart(start, page_size_real)
        /\ draw' = IF draw # None THEN Some(draw[1] + 1) ELSE None
        /\ sent' = Append(sent, request)
        /\ last' = resp
        /\ IF resp.kind = "throw"
           THEN /\ pc' = "failed"
                /\ error' = "fetch_all_centers"
                /\ UNCHANGED <<all_rows, total, page_size_real, seen_fingerprints, pages, stop>>
           ELSE IF resp.status # HTTP_OK THEN Break("status")
           ELSE IF ~resp.json THEN Break("json")
           ELSE IF rows = <<>> THEN Break("empty")
           ELSE IF SeenBefore(fp, seen_fingerprints) THEN Break("repeat")
           ELSE /\ seen_fingerprints' = seen_fingerprints \cup {fp}
                /\ all_rows' = all_rows \o rows
                /\ pages' = Append(pages, rows)
                /\ total' = total1
                /\ page_size_real' = Max(1, Len(rows))
                /\ IF Complete(total1, Len(all_rows \o rows))
                   THEN stop' = "total" /\ pc' = "parse"
                   ELSE stop' = "" /\ pc' = "fetch"
                /\ UNCHANGED error

\* lines 232 and 289-291: what fetch_all_centers hands over when it ends: the
\* rows it returns and, after the loop, the two counts it writes to debug files
Returned ==
    IF stop = "no_template" THEN [rows |-> all_rows]
    ELSE [rows |-> all_rows, list_total_rows |-> Len(all_rows), records_total |-> total]

FetchPage ==
    /\ pc = "fetch"
    /\ backend.mode = "free" => Len(sent) < MaxFetch
    /\ \E resp \in PageResponses(NextPostData) : FetchStep(resp)
    /\ UNCHANGED <<envVars, detVars, tplVars, centers, poolVars, csv>>

\* ------------------------------------------------------------------ main

AllOf(n, v) == [i \in 1..n |-> v]

\* lines 418-440: the rows are parsed, the semaphore and the tasks are made
ParseCenters ==
    /\ pc = "parse"
    /\ centers' = parse_centers(all_rows)
    /\ chunk_start' = 0
    /\ sem' = CONCURRENCY
    /\ wst' = AllOf(Len(parse_centers(all_rows)), "new")
    /\ emails' = AllOf(Len(parse_centers(all_rows)), {})
    /\ email' = AllOf(Len(parse_centers(all_rows)), NoEmail)
    /\ pending' = AllOf(Len(parse_centers(all_rows)), {})
    /\ visits' = AllOf(Len(parse_centers(all_rows)), 0)
    /\ results' = <<>>
    /\ pc' = "detail"
    /\ UNCHANGED <<error, envVars, detVars, tplVars, pagVars, overtaken, csv>>

\* the tasks of the chunk being gathered
Chunk_Rest == (chunk_start + 1)..Len(centers)
Chunk == (chunk_start + 1)..Min(chunk_start + CHUNK, Len(centers))

\* lines 442-448: the next chunk is handed to gather, or the browser is closed
NextChunk ==
    /\ pc = "detail"
    /\ pc' = IF chunk_start < Len(centers) THEN "gather" ELSE "csv"
    /\ UNCHANGED <<error, envVars, detVars, tplVars, pagVars, centers, poolVars, csv>>

PageOf(i) ==
    IF centers[i].ficha_url \in DOMAIN site THEN site[centers[i].ficha_url] ELSE NoPage

\* async with sem
CanAcquire_Always(permits) == TRUE
CanAcquire(permits) == permits > 0

Acquire(i) ==
    /\ pc = "gather"
    /\ i \in Chunk
    /\ wst[i] = "new"
    /\ CanAcquire(sem)
    /\ sem' = sem - 1
    /\ wst' = [wst EXCEPT ![i] = "entered"]
    /\ UNCHANGED <<pc, error, envVars, detVars, tplVars, pagVars, centers, chunk_start,
                   emails, email, pending, overtaken, visits, results, csv>>

\* an exception leaves extract_email_from_detail and the worker: the permit is
\* released, gather raises in main and the run ends, asyncio.run cancelling
\* the tasks that are not done
Raise(i) ==
    /\ wst' = [j \in DOMAIN wst |->
                 IF j = i THEN "raised"
                 ELSE IF wst[j] \in {"new", "done"} THEN wst[j] ELSE "cancelled"]
    /\ sem' = sem + 1
    /\ pc' = "failed"
    /\ error' = "extract_email_from_detail"

\* line 339: context.new_page()
OpenPage(i) ==
    /\ pc = "gather"
    /\ wst[i] = "entered"
    /\ \E ok \in BOOLEAN :
          IF ok
          THEN /\ wst' = [wst EXCEPT ![i] = "open"]
               /\ pending' = [pending EXCEPT ![i] = PageOf(i).xhr]
               /\ UNCHANGED <<pc, error, sem>>
          ELSE /\ Raise(i)
               /\ UNCHANGED pending
    /\ UNCHANGED <<envVars, detVars, tplVars, pagVars, centers, chunk_start, emails, email,
                   overtaken, visits, results, csv>>

\* lines 341-354: the callback of one response
OnResponse(i) ==
    /\ pc = "gather"
    /\ wst[i] \in {"open", "closing"}
    /\ \E r \in pending[i] :
          /\ pending' = [pending EXCEPT ![i] = @ \ {r}]
          /\ emails' = [emails EXCEPT ![i] = @ \cup ResponseEmails(r)]
    /\ UNCHANGED <<pc, error, envVars, detVars, tplVars, pagVars, centers, chunk_start, sem,
                   wst, email, overtaken, visits, results, csv>>

Sources == {"mailto", "text", "html"}

\* which reads of the page may throw (each is caught on its own)
ReadFailures(page) == IF page.up = "maybe" THEN SUBSET Sources ELSE {{}}

\* whether goto may succeed, may fail
GotoOutcomes(page) ==
    IF page.up = "yes" THEN {TRUE} ELSE IF page.up = "no" THEN {FALSE} ELSE BOOLEAN

\* where the try statement goes once its body or its handler has set the
\* result: to the finally clause, whether goto succeeded or not
AfterScan_FailureReturns(ok) == IF ok THEN "closing" ELSE "done"
AfterScan(ok) == "closing"

\* lines 358-395: goto, the wait, the three scans and the choice
Scan(i) ==
    /\ pc = "gather"
    /\ wst[i] = "open"
    /\ \E ok \in GotoOutcomes(PageOf(i)), failed \in ReadFailures(PageOf(i)) :
          LET page == PageOf(i)
              found == emails[i]
                       \cup (IF "mailto" \in failed THEN {} ELSE MailtoEmails(page.mailto))
                       \cup (IF "text" \in failed THEN {} ELSE extract_emails(page.text))
                       \cup (IF "html" \in failed THEN {} ELSE extract_emails(page.html))
          IN  /\ IF ok
                 THEN /\ emails' = [emails EXCEPT ![i] = found]
                      /\ email' = [email EXCEPT ![i] = PickFirst(found)]
                 ELSE /\ email' = [email EXCEPT ![i] = NoEmail]
                      /\ UNCHANGED emails
              /\ wst' = [wst EXCEPT ![i] = AfterScan(ok)]
    /\ visits' = [visits EXCEPT ![i] = @ + 1]
    /\ UNCHANGED <<pc, error, envVars, detVars, tplVars, pagVars, centers, chunk_start, sem,
                   pending, overtaken, results, csv>>

\* lines 396-397 and the return through the worker
ClosePage(i) ==
    /\ pc = "gather"
    /\ wst[i] = "closing"
    /\ \E ok \in BOOLEAN :
          IF ok
          THEN /\ wst' = [wst EXCEPT ![i] = "done"]
               /\ sem' = sem + 1
               /\ overtaken' = (overtaken \/ \E j \in Chunk : j < i /\ wst[j] # "done")
               /\ UNCHANGED <<pc, error>>
          ELSE /\ Raise(i)
               /\ UNCHANGED overtaken
    /\ emails' = [emails EXCEPT ![i] = {}]
    /\ pending' = [pending EXCEPT ![i] = {}]
    /\ UNCHANGED <<envVars, detVars, tplVars, pagVars, centers, chunk_start, email,
                   visits, results, csv>>

\* worker's return value, in the order of the tasks handed to gather
ResultOf(i) == <<centers[i].codigo, centers[i].nombre, email[i]>>

GatherResults_Rotated(lo, hi) ==
    [k \in 1..(hi - lo + 1) |->
        <<centers[lo + k - 1].codigo, centers[lo + k - 1].nombre,
          email[lo + ((k) % (hi - lo + 1))]>>]
GatherResults(lo, hi) == [k \in 1..(hi - lo + 1) |-> ResultOf(lo + k - 1)]

\* line 444: gather returns when every task of the chunk has
Gather ==
    /\ pc = "gather"
    /\ \A i \in Chunk : wst[i] = "done"
    /\ results' = results \o GatherResults(chunk_start + 1, Min(chunk_start + CHUNK, Len(centers)))
    /\ chunk_start' = chunk_start + CHUNK
    /\ pc' = "detail"
    /\ UNCHANGED <<error, envVars, detVars, tplVars, pagVars, centers, sem, wst, emails, email,
                   pending, overtaken, visits, csv>>

\* lines 451-454
WriteCsv ==
    /\ pc = "csv"
    /\ csv' = <<<<"codigo", "nombre", "email">>>> \o results
    /\ pc' = "done"
    /\ UNCHANGED <<error, envVars, detVars, tplVars, pagVars, centers, poolVars>>

Workers == 1..Len(centers)

Acquires == \E i \in Workers : Acquire(i)
OpenPages == \E i \in Workers : OpenPage(i)
Scans == \E i \in Workers : Scan(i)
ClosePages == \E i \in Workers : ClosePage(i)
Callbacks == \E i \in Workers : OnResponse(i)

\* ------------------------------------------------------------ specifications

DtTemplates ==
    { <<Param("ca", 5), Param("draw", 1), Param("start", 0), Param("length", 10)>>,
      <<Param("start", 0), Param("length", 10)>>,
      <<TextParam("draw"), Param("start", 0)>> }

\* bodies without start, length or draw; the last holds the text start= all the same
Templates == DtTemplates \cup { <<Param("ca", 5)>>, <<>>, <<Param("restart", 0)>> }

\* the state after the prober chose a request that was answered by payload
Probed(method, post_data, payload) ==
    /\ probe_mode = "free"
    /\ traffic = <<Request("xhr", TRUE, TRUE, TRUE, method, post_data)>>
    /\ captured = Observe(traffic)
    /\ candidates = Observe(traffic)
    /\ probe_i = 1
    /\ replays = <<[id |-> 1, resp |-> Response("http", HTTP_OK, TRUE, payload)]>>
    /\ req_template = [method |-> method, post_data |-> post_data]
    /\ first_payload = payload

BlankPag ==
    /\ all_rows = <<>> /\ total = None /\ page_size_real = 1 /\ start = 0 /\ draw = None
    /\ seen_fingerprints = {} /\ sent = <<>> /\ pages = <<>> /\ stop = ""
    /\ last = Response("none", 0, FALSE, NoPayload)

BlankPool ==
    /\ centers = <<>> /\ chunk_start = 0 /\ sem = CONCURRENCY
    /\ wst = <<>> /\ emails = <<>> /\ email = <<>> /\ pending = <<>>
    /\ overtaken = FALSE /\ visits = <<>> /\ results = <<>> /\ csv = <<>>

\* pagination against a backend that may answer anything
InitPag ==
    /\ pc = "fetch_init"
    /\ error = ""
    /\ backend = [mode |-> "free", size |-> 0]
    /\ data = FreeData
    /\ site = <<>>
    /\ \E m \in {"POST", "GET"}, t \in Templates, p \in {q \in FreePayloads : Accepts(Response("http", HTTP_OK, TRUE, q))} :
          Probed(m, t, p)
    /\ BlankPag
    /\ BlankPool

NextPag == FetchInit \/ FetchPage \/ ParseCenters

SpecPag == InitPag /\ [][NextPag]_vars

\* pagination against the honest backend: T rows served P at a time
HonestData(T) == [k \in 1..T |-> CenterRow(k)]

InitHonest ==
    /\ pc = "fetch_init"
    /\ error = ""
    /\ site = <<>>
    /\ \E T \in 1..MaxTotal, P \in 1..MaxPage, t \in DtTemplates :
          /\ backend = [mode |-> "honest", size |-> P]
          /\ data = HonestData(T)
          /\ Probed("POST", t, HonestResponse(HonestData(T), P, 0).payload)
    /\ BlankPag
    /\ BlankPool

SpecHonest == InitHonest /\ [][NextPag]_vars

\* the detail pages of a site whose page for code k shows the address k
CodeNumber(url) == url[3][1].n

Urls(cs) == {cs[i].ficha_url : i \in 1..Len(cs)} \ {<<>>}

SteadySite(cs) == [u \in Urls(cs) |-> Page("yes", <<>>, <<>>, <<Plain(CodeNumber(u))>>, {})]

\* a listing of n rows whose second row has a code that is no number and no
\* link: its record has no URL
DetailData(n) ==
    [k \in 1..n |-> IF k = 2 THEN ListRow(<<<<Word("x")>>, <<Word("IES")>>>>) ELSE CenterRow(k)]

\* the state after parse_centers, the listing having come as one page
Parsed(rows) ==
    /\ backend = [mode |-> "honest", size |-> Max(1, Len(rows))]
    /\ data = rows
    /\ Probed("POST", <<Param("ca", 5)>>, HonestResponse(rows, Max(1, Len(rows)), 0).payload)
    /\ all_rows = rows /\ total = Some(Len(rows)) /\ page_size_real = Max(1, Len(rows))
    /\ start = 0 /\ draw = None /\ seen_fingerprints = {} /\ sent = <<>>
    /\ pages = <<rows>> /\ stop = "no_template"
    /\ last = Response("none", 0, FALSE, NoPayload)
    /\ centers = parse_centers(rows)
    /\ chunk_start = 0 /\ sem = CONCURRENCY
    /\ wst = AllOf(Len(parse_centers(rows)), "new")
    /\ emails = AllOf(Len(parse_centers(rows)), {})
    /\ email = AllOf(Len(parse_centers(rows)), NoEmail)
    /\ pending = AllOf(Len(parse_centers(rows)), {})
    /\ overtaken = FALSE /\ visits = AllOf(Len(parse_centers(rows)), 0)
    /\ results = <<>> /\ csv = <<>>

\* the detail pool over pages that answer steadily
InitDetail ==
    /\ pc = "detail"
    /\ error = ""
    /\ \E n \in {0, 2, NumCenters} :
          /\ Parsed(DetailData(n))
          /\ site = SteadySite(parse_centers(DetailData(n)))

NextDetail == NextChunk \/ Acquires \/ OpenPages \/ Scans \/ ClosePages \/ Gather \/ WriteCsv

SpecDetail == InitDetail /\ [][NextDetail]_vars

\* one record, whose page may hold anything
XhrPool ==
    { XhrResponse(1, "xhr", HTTP_OK, FALSE, <<Plain(1)>>),
      XhrResponse(2, "fetch", HTTP_OK, TRUE, <<Plain(1)>>),
      XhrResponse(3, "xhr", 404, FALSE, <<Plain(1)>>),
      XhrResponse(4, "script", HTTP_OK, FALSE, <<Plain(1)>>),
      XhrResponse(5, "fetch", HTTP_OK, FALSE, <<Noise, Obf(2)>>) }

ExtractPages ==
    { Page(up, m, t, h, x) :
        up \in {"yes", "maybe"},
        m \in {<<>>, <<Mailto(2, TRUE)>>, <<Mailto(1, FALSE), Mailto(3, TRUE)>>},
        t \in {<<>>, <<Noise, Plain(3)>>, <<Obf(2), Plain(4)>>},
        h \in {<<>>, <<Plain(3), Noise>>},
        x \in {s \in SUBSET XhrPool : Cardinality(s) <= MaxXhr} }

InitExtract ==
    /\ pc = "detail"
    /\ error = ""
    /\ Parsed(HonestData(1))
    /\ \E page \in ExtractPages :
          site = [u \in Urls(parse_centers(HonestData(1))) |-> page]

NextExtract == NextDetail \/ Callbacks

SpecExtract == InitExtract /\ [][NextExtract]_vars

\* the whole run, against a small honest listing
ReqListing == Request("xhr", TRUE, TRUE, TRUE, "POST",
                      <<Param("ca", 5), Param("draw", 1), Param("start", 0), Param("length", 10)>>)
ReqGet == Request("fetch", TRUE, TRUE, FALSE, "GET", <<>>)
ReqTie == Request("xhr", TRUE, FALSE, TRUE, "GET", <<>>)
ReqForm == Request("document", FALSE, FALSE, FALSE, "POST", <<Param("ca", 5)>>)
ReqImage == Request("image", TRUE, FALSE, FALSE, "GET", <<>>)

RequestPool == {ReqListing, ReqGet, ReqTie, ReqForm, ReqImage}

\* the sequences of at most n requests of the pool, none twice
RECURSIVE Arrangements(_, _)
Arrangements(S, n) ==
    IF n = 0 THEN {<<>>}
    ELSE {<<>>} \cup UNION {{<<x>> \o r : r \in Arrangements(S \ {x}, n - 1)} : x \in S}

\* more candidates than the prober replays: the form first, then the listing
\* request PROBE_LIMIT times over
LongTraffic == <<ReqForm>> \o [k \in 1..PROBE_LIMIT |-> ReqListing]

\* the page of code 1 fetches a response while rendering; the page of code 2
\* may fail to load or to be read
FullSite(cs) ==
    [u \in Urls(cs) |->
        Page(IF CodeNumber(u) = 2 THEN "maybe" ELSE "yes", <<>>, <<>>, <<Plain(CodeNumber(u))>>,
             IF CodeNumber(u) = 1 THEN {XhrResponse(1, "xhr", HTTP_OK, FALSE, <<Plain(9)>>)} ELSE {})]

Init ==
    /\ pc = "detect"
    /\ error = ""
    /\ backend = [mode |-> "flaky", size |-> 1]
    /\ data = HonestData(2)
    /\ site = FullSite(parse_centers(HonestData(2)))
    /\ \/ /\ probe_mode = "free"
          /\ traffic \in Arrangements(RequestPool, MaxTraffic)
       \/ /\ probe_mode \in {"down", "err"}
          /\ traffic = LongTraffic
    /\ captured = <<>> /\ candidates = <<>> /\ probe_i = 1 /\ replays = <<>>
    /\ req_template = [method |-> "", post_data |-> <<>>]
    /\ first_payload = NoPayload
    /\ BlankPag
    /\ BlankPool

Next ==
    \/ Detect \/ Probe \/ ProbeExhausted
    \/ FetchInit \/ FetchPage
    \/ ParseCenters \/ NextDetail \/ Callbacks

Spec == Init /\ [][Next]_vars

\* pagination, as often as the loop runs, against a backend that always
\* answers, with any window of at most two rows of its listing, whatever the
\* offset asked, and never a total; the loop runs whenever its request returned
InitLoose ==
    /\ pc = "fetch_init"
    /\ error = ""
    /\ site = <<>>
    /\ backend = [mode |-> "loose", size |-> 2]
    /\ data = HonestData(LooseRows)
    /\ \E w \in Windows(HonestData(LooseRows), 2) :
          Probed("POST", <<Param("draw", 1), Param("start", 0), Param("length", 10)>>,
                 Payload("dict", "data", w, None, None))
    /\ BlankPag
    /\ BlankPool

SpecLoose == InitLoose /\ [][NextPag]_vars /\ WF_vars(FetchInit) /\ WF_vars(FetchPage)

\* the detail pool over more records than one batch holds, taken up when the
\* first tasks of the first batch are done, in order, and no other has started
InitBatch ==
    /\ pc = "gather"
    /\ error = ""
    /\ LET n == CHUNK + SecondBatch
           rows == HonestData(n)
           cs == [k \in 1..n |-> ParseRow(rows[k])[1]]
           ran == CHUNK - BatchTail
       IN  /\ backend = [mode |-> "honest", size |-> n]
           /\ data = rows
           /\ Probed("POST", <<Param("ca", 5)>>, HonestResponse(rows, n, 0).payload)
           /\ all_rows = rows /\ total = Some(n) /\ page_size_real = n
           /\ pages = <<rows>>
           /\ centers = cs
           /\ site = SteadySite(cs)
           /\ wst = [k \in 1..n |-> IF k <= ran THEN "done" ELSE "new"]
           /\ email = [k \in 1..n |-> IF k <= ran THEN k ELSE NoEmail]
           /\ visits = [k \in 1..n |-> IF k <= ran THEN 1 ELSE 0]
           /\ emails = AllOf(n, {})
           /\ pending = AllOf(n, {})
    /\ start = 0 /\ draw = None /\ seen_fingerprints = {} /\ sent = <<>>
    /\ stop = "no_template"
    /\ last = Response("none", 0, FALSE, NoPayload)
    /\ chunk_start = 0 /\ sem = CONCURRENCY
    /\ overtaken = FALSE /\ results = <<>> /\ csv = <<>>

SpecBatch == InitBatch /\ [][NextDetail]_vars

\* the rows parse_centers may meet: digits, digits inside tags, digits apart,
\* a word, a link in the code cell, a link in the last cell, no code, no name,
\* one cell only, and a keyed row
RowPool ==
    { ListRow(<<<<Num(1)>>, <<Word("a")>>>>),
      ListRow(<<<<Tag, Num(1), Num(2), Tag>>, <<Word("a"), WS, WS, Tag, Word("b"), WS>>>>),
      ListRow(<<<<Num(1), WS, Num(2)>>, <<Word("a")>>>>),
      ListRow(<<<<Word("x")>>, <<Word("a")>>>>),
      ListRow(<<<<Link("/centro/7"), Num(7), Tag>>, <<Word("a")>>>>),
      ListRow(<<<<Num(3)>>, <<Word("a")>>, <<Link("/centro/3")>>>>),
      ListRow(<<<<WS, Tag>>, <<Word("a")>>>>),
      ListRow(<<<<Num(4)>>, <<WS>>>>),
      ListRow(<<<<Num(5)>>>>),
      DictRow(<<Num(6)>>, <<Word("k")>>) }

RECURSIVE Listings(_, _)
Listings(S, n) ==
    IF n = 0 THEN {<<>>}
    ELSE {<<>>} \cup {<<x>> \o r : x \in S, r \in Listings(S, n - 1)}

\* parse_centers over a listing that came as one page of a request without
\* pagination parameters
InitParse ==
    /\ pc = "parse"
    /\ error = ""
    /\ backend = [mode |-> "free", size |-> 0]
    /\ site = <<>>
    /\ \E rows \in Listings(RowPool, MaxRows) :
          /\ data = rows
          /\ Probed("GET", <<>>, Payload("dict", "data", rows, None, None))
          /\ all_rows = rows /\ pages = <<rows>>
          /\ page_size_real = Max(1, Len(rows))
    /\ total = None /\ start = 0 /\ draw = None /\ seen_fingerprints = {}
    /\ sent = <<>> /\ stop = "no_template"
    /\ last = Response("none", 0, FALSE, NoPayload)
    /\ BlankPool

NextParse == ParseCenters

SpecParse == InitParse /\ [][NextParse]_vars

\* ------------------------------------------------------------------- claims

\* a 200 JSON answer: a page
IsPage(resp) == resp.kind = "http" /\ resp.status = HTTP_OK /\ resp.json

PageFingerprints == {fingerprint(pages[i]) : i \in 1..Len(pages)}

\* C1: when a fetched page has the fingerprint of a page already seen (the
\* first included), pagination stops at once: that page's rows are not
\* appended, the rows returned are the concatenation in fetch order of the
\* pages accepted before it, and no page request is issued once it stopped.
C1_RepeatStops ==
    [][ /\ (pc = "fetch" /\ sent' # sent /\ IsPage(last')
            /\ fingerprint(rows_from_payload(last'.payload)) \in PageFingerprints)
           => (pc' = "parse" /\ pages' = pages /\ all_rows' = all_rows
               /\ all_rows' = Concat(pages))
        /\ pc # "fetch" => sent' = sent
      ]_vars

C1_Witness ==
    /\ pc = "parse" /\ Len(pages) = 2 /\ Len(sent) = 2 /\ IsPage(last)
    /\ rows_from_payload(last.payload) # <<>>
    /\ fingerprint(rows_from_payload(last.payload)) = fingerprint(pages[1])
    /\ all_rows = pages[1] \o pages[2]

CeilDiv(a, b) == (a + b - 1) \div b

C3_UniqueCodes ==
    pc = "detail" =>
        \A i, j \in 1..Len(centers) : i # j => centers[i].codigo # centers[j].codigo

\* C4: extract_email_from_detail never raises to its caller, whichever step
\* fails: no worker ends with an exception and the run is not ended by one.
C4_NeverRaises ==
    /\ \A i \in DOMAIN wst : wst[i] # "raised"
    /\ error # "extract_email_from_detail"

\* C5: a page request that returns no response (a timeout) ends pagination
\* like a non-200 answer: the rows so far are returned and the run goes on.
C5_TimeoutEndsPagination ==
    (sent # <<>> /\ last.kind = "throw") => (pc \in {"parse", "detail"} /\ error = "")

\* the address the detail page of record i shows, NoEmail when it has no page
ShownEmail(i) ==
    LET url == centers[i].ficha_url
        shown == IF url \in DOMAIN site /\ site[url].up = "yes"
                 THEN MailtoEmails(site[url].mailto) \cup extract_emails(site[url].text)
                      \cup extract_emails(site[url].html)
                 ELSE {}
    IN  IF shown = {} THEN NoEmail ELSE MinOf(shown)

\* C6: whatever the order in which the detail tasks complete, the results hold
\* one triple per record, in the order of the records, and the email at place
\* i is the one of record i's own detail page; the CSV holds them after its header.
C6_ResultsInOrder ==
    /\ pc \in {"csv", "done"} =>
          /\ Len(results) = Len(centers)
          /\ \A i \in 1..Len(centers) :
                results[i] = <<centers[i].codigo, centers[i].nombre, ShownEmail(i)>>
    /\ pc = "done" => csv = <<<<"codigo", "nombre", "email">>>> \o results

C6_Witness ==
    /\ pc = "done" /\ overtaken /\ Len(results) = NumCenters
    /\ results[1][3] # results[3][3] /\ results[2][3] = NoEmail

\* every address of the page of record i: links, text, markup and the
\* responses on_response takes
AllCandidates(i) ==
    LET page == PageOf(i)
    IN  MailtoEmails(page.mailto) \cup extract_emails(page.text) \cup extract_emails(page.html)
        \cup UNION {ResponseEmails(r) : r \in page.xhr}

\* C7: the email of a record is the smallest of the candidates of every source
\* of its page, the responses fetched while rendering included, whenever their
\* callbacks run.
C7_SmallestOfAllSources ==
    \A i \in DOMAIN wst :
        (wst[i] \in {"closing", "done"} /\ PageOf(i).up = "yes")
            => email[i] = (IF AllCandidates(i) = {} THEN NoEmail ELSE MinOf(AllCandidates(i)))

InProgress == {i \in DOMAIN wst : wst[i] \in {"entered", "open", "closing"}}

\* C8: at most CONCURRENCY extract_email_from_detail calls are in progress.
C8_AtMostConcurrency ==
    /\ Cardinality(InProgress) <= CONCURRENCY
    /\ pc = "gather" => sem = CONCURRENCY - Cardinality(InProgress)

C8_Witness ==
    /\ pc = "gather" /\ Cardinality(InProgress) = CONCURRENCY /\ sem = 0
    /\ \E i \in DOMAIN wst : wst[i] = "new" /\ ~CanAcquire(sem)

\* the candidates are the first PROBE_LIMIT of the captured requests by descending
\* score, equal scores in observation order
RankedBefore(a, b) == score(a) > score(b) \/ (score(a) = score(b) /\ a.id < b.id)

RankedOrder ==
    pc # "detect" /\ error = "" /\ Len(replays) <= 1 =>
        /\ Len(candidates) = Min(Len(captured), PROBE_LIMIT)
        /\ \A i, j \in 1..Len(candidates) : i < j => RankedBefore(candidates[i], candidates[j])
        /\ \A i \in 1..Len(candidates) : \E j \in 1..Len(captured) : captured[j] = candidates[i]
        /\ \A j \in 1..Len(captured) :
              (\A i \in 1..Len(candidates) : candidates[i] # captured[j])
                  => \A i \in 1..Len(candidates) : RankedBefore(candidates[i], captured[j])

Chosen == pc \notin {"detect", "probe"} /\ error # "detect_list_endpoint_and_template"

\* the replays follow the ranking, one per candidate; the prober returns the
\* first one that acc accepts and replays none after it
ProbeOrder(acc(_)) ==
    /\ Len(replays) <= Len(candidates)
    /\ \A k \in 1..Len(replays) : replays[k].id = candidates[k].id
    /\ \A k \in 1..(Len(replays) - 1) : ~acc(replays[k].resp)
    /\ pc = "probe" =>
          /\ probe_i = Len(replays) + 1
          /\ \A k \in 1..Len(replays) : ~acc(replays[k].resp)
    /\ Chosen =>
          /\ replays # <<>>
          /\ acc(replays[Len(replays)].resp)
          /\ req_template.method = candidates[Len(replays)].method
          /\ req_template.post_data = candidates[Len(replays)].post_data
          /\ first_payload = replays[Len(replays)].resp.payload

\* the has-rows predicate as the claim words it: a dictionary with a
\* recognised array-valued field, or a bare top-level array
HasRowsAsClaimed(resp) ==
    /\ IsPage(resp)
    /\ \/ resp.payload.shape = "list"
       \/ resp.payload.shape = "dict" /\ resp.payload.key \in {"data", "items", "results", "content"}

\* the predicate of the code: a dictionary whose "data" is an array, or a
\* non-empty array under items, results or content, or a non-empty top-level array
HasRowsAsCoded(resp) ==
    /\ IsPage(resp)
    /\ \/ resp.payload.shape = "dict" /\ resp.payload.key = "data"
       \/ /\ resp.payload.shape = "dict" /\ resp.payload.key \in {"items", "results", "content"}
          /\ resp.payload.rows # <<>>
       \/ resp.payload.shape = "list" /\ resp.payload.rows # <<>>

C10_DiscoveryFails ==
    /\ Len(replays) <= PROBE_LIMIT
    /\ (pc \notin {"detect", "probe"} /\ \A k \in 1..Len(replays) : ~Accepts(replays[k].resp))
          => pc = "failed" /\ error = "detect_list_endpoint_and_template"
    /\ error = "detect_list_endpoint_and_template"
          => /\ pc = "failed"
             /\ sent = <<>> /\ centers = <<>> /\ wst = <<>> /\ results = <<>> /\ csv = <<>>
    /\ (replays # <<>> /\ replays[Len(replays)].resp.kind = "throw")
          => \/ pc = "probe" /\ probe_i = Len(replays) + 1
             \/ pc = "failed" /\ Len(replays) = Len(candidates)

C10_Witness ==
    /\ pc = "failed" /\ error = "detect_list_endpoint_and_template"
    /\ Len(captured) > PROBE_LIMIT /\ Len(replays) = PROBE_LIMIT
    /\ \A k \in 1..Len(replays) : replays[k].resp.kind = "throw"

\* the request body holds none of the texts start=, length=, draw=
NoPaginationNames ==
    /\ ~HasParam(req_template.post_data, "start")
    /\ ~HasParam(req_template.post_data, "length")
    /\ ~HasParam(req_template.post_data, "draw")

\* C11: when the chosen request's body holds none of the offset, length and
\* draw names, fetch_all_centers sends no request and returns the rows of the
\* first page, unchanged and in the same order.
C11_SinglePage ==
    (pc # "fetch_init" /\ NoPaginationNames) =>
        /\ pc \in {"parse", "detail"} /\ error = ""
        /\ sent = <<>>
        /\ all_rows = rows_from_payload(first_payload)

C11_Witness ==
    /\ pc = "parse" /\ NoPaginationNames /\ req_template.method = "POST"
    /\ req_template.post_data # <<>>
    /\ sent = <<>> /\ Len(all_rows) = 2 /\ all_rows = first_payload.rows

\* C12: nothing is retried within a run: no candidate is replayed twice, no
\* page request is sent twice and the offsets sent are strictly increasing, and
\* no record's detail URL is navigated to more than once, also after a failure
\* or a timeout; a failed page request is followed by no other.
C12_NoRetry ==
    /\ \A j, k \in 1..Len(replays) : j # k => replays[j].id # replays[k].id
    /\ \A j, k \in 1..Len(sent) :
          j < k => /\ sent[j].body # sent[k].body
                   /\ (sent[j].start # None /\ sent[k].start # None)
                         => sent[j].start[1] < sent[k].start[1]
    /\ (sent # <<>> /\ ~IsPage(last)) => pc # "fetch"
    /\ \A i \in DOMAIN visits : visits[i] <= 1

C12_Witness ==
    /\ pc = "done"
    /\ Len(replays) = 1
    /\ Len(sent) = 1 /\ sent[1].start = Some(1) /\ IsPage(last)
    /\ Len(centers) = 2 /\ visits = <<1, 1>> /\ email[2] = NoEmail

\* C13: what the paginator hands over tells a stalled run from a normal one:
\* it holds a flag stalled, true exactly when pagination stopped on a
\* fingerprint already seen, false when it stopped otherwise.
C13_StallReported ==
    pc = "parse" =>
        /\ "stalled" \in DOMAIN Returned
        /\ Returned.stalled = (stop = "repeat")

\* C14: a keyed row with a non-empty code and a non-empty name yields a record
\* with that code and name, as a positional row does.
C14_KeyedRowsKept ==
    pc = "detail" =>
        \A i \in 1..Len(all_rows) :
            (/\ all_rows[i].kind = "dict"
             /\ Clean(all_rows[i].cells[1]) # <<>>
             /\ Clean(all_rows[i].cells[2]) # <<>>)
            => \E j \in 1..Len(centers) :
                  /\ centers[j].codigo = Clean(all_rows[i].cells[1])
                  /\ centers[j].nombre = Clean(all_rows[i].cells[2])

NoLink(cell) == \A k \in 1..Len(cell) : cell[k].t = "tag" => cell[k].href = None

Positional(row) == row.kind = "list" /\ Len(row.cells) >= 2

OnlyDigits(s) == s # <<>> /\ \A k \in 1..Len(s) : s[k].t = "num"

\* the rows that have a code and a name after cleaning
Kept(rows) ==
    {i \in 1..Len(rows) :
        Positional(rows[i]) /\ Clean(rows[i].cells[1]) # <<>> /\ Clean(rows[i].cells[2]) # <<>>}

\* C15: a positional row with a name, no link in its code cell nor in its last
\* cell and a cleaned code of digits only yields a record whose URL is BASE,
\* /registroestatalentidadesformacion/centro/ and the cleaned code; a row whose
\* cleaned code or cleaned name is empty yields no record and no error.
C15_TemplateUrl ==
    pc = "detail" =>
        /\ error = ""
        /\ Len(centers) = Cardinality(Kept(all_rows))
        /\ \A j \in 1..Len(centers) : centers[j].codigo # <<>> /\ centers[j].nombre # <<>>
        /\ \A i \in Kept(all_rows) :
              LET row == all_rows[i]
                  j == Cardinality({k \in Kept(all_rows) : k <= i})
              IN  /\ centers[j].codigo = Clean(row.cells[1])
                  /\ centers[j].nombre = Clean(row.cells[2])
                  /\ (/\ NoLink(row.cells[1]) /\ NoLink(row.cells[Len(row.cells)])
                      /\ OnlyDigits(Clean(row.cells[1])))
                     => centers[j].ficha_url =
                           <<"BASE", "/registroestatalentidadesformacion/centro/",
                             Clean(row.cells[1])>>

C15_Witness ==
    /\ pc = "detail" /\ Len(all_rows) = 2 /\ Len(centers) = 1
    /\ Kept(all_rows) = {2}
    /\ Positional(all_rows[1]) /\ Clean(all_rows[1].cells[2]) = <<>>
    /\ NoLink(all_rows[2].cells[1])
    /\ centers[1].codigo = <<Num(1), Num(2)>>
    /\ centers[1].ficha_url =
          <<"BASE", "/registroestatalentidadesformacion/centro/", <<Num(1), Num(2)>>>>

\* the first declared total among the pages kept and the page rows came with
DeclaredWith(payload) ==
    IF total # None THEN total
    ELSE IF payload.shape = "dict" THEN PyOr(payload.recordsFiltered, payload.recordsTotal)
    ELSE None

\* why an iteration that got the answer resp ends the loop, "" when it does not
StopReason(resp) ==
    LET rows == rows_from_payload(resp.payload)
        declared == DeclaredWith(resp.payload)
    IN  IF resp.status # HTTP_OK THEN "status"
        ELSE IF ~resp.json THEN "json"
        ELSE IF rows = <<>> THEN "empty"
        ELSE IF fingerprint(rows) \in PageFingerprints THEN "repeat"
        ELSE IF declared # None /\ Len(all_rows) + Len(rows) >= declared[1] THEN "total"
        ELSE ""

\* C16: each iteration tests, in this order, a non-200 answer, an empty row
\* list, a fingerprint already seen and the count against the declared total:
\* rows are appended only when the answer is 200 with rows and a new
\* fingerprint, and the page that reaches the total is appended before the stop.
C16_StopOrder ==
    [][ (pc = "fetch" /\ sent' # sent /\ last'.kind = "http") =>
           LET rows == rows_from_payload(last'.payload)
               why == StopReason(last')
           IN  /\ stop' = why
               /\ pc' = (IF why = "" THEN "fetch" ELSE "parse")
               /\ IF why \in {"", "total"}
                  THEN /\ last'.status = HTTP_OK /\ rows # <<>>
                       /\ fingerprint(rows) \notin PageFingerprints
                       /\ all_rows' = all_rows \o rows
                       /\ pages' = Append(pages, rows)
                  ELSE all_rows' = all_rows /\ pages' = pages
      ]_vars

C16_Witness ==
    /\ pc = "parse" /\ stop = "total" /\ Len(pages) = 3 /\ Len(sent) = 2
    /\ total # None /\ Len(all_rows) >= total[1]
    /\ Len(all_rows) - Len(pages[3]) < total[1]
    /\ first_payload.recordsFiltered = None /\ first_payload.recordsTotal = None

\* C17: when every page request returns and the backend has finitely many
\* pages, fetch_all_centers ends, also when no total is ever declared: every
\* iteration stops the loop or adds a fingerprint not seen before.
C17_Terminates ==
    /\ <>(pc \notin {"fetch_init", "fetch"})
    /\ [][ (pc = "fetch" /\ sent' # sent) =>
              \/ pc' # "fetch"
              \/ /\ PageFingerprints \subseteq PageFingerprints'
                 /\ Cardinality(PageFingerprints') = Cardinality(PageFingerprints) + 1
                 /\ seen_fingerprints' = PageFingerprints'
       ]_vars

C17_Witness ==
    /\ pc = "parse" /\ stop = "repeat" /\ total = None
    /\ Len(sent) = 3 /\ Len(pages) = 3 /\ Cardinality(PageFingerprints) = 3
    /\ Len(all_rows) = 4

\* the rows accumulated when the k-th page request is sent: those of the
\* first page and of the pages kept since
RowsBefore(k) == Len(Concat(SubSeq(pages, 1, k)))

Batch(i) == (i - 1) \div CHUNK

\* C19: the detail extractions run in consecutive batches of at most 100
\* records: no extraction of a batch starts before every extraction of the
\* batches before it has completed, and no two batches are in progress together.
C19_BatchesInTurn ==
    /\ \A i, j \in InProgress : Batch(i) = Batch(j)
    /\ \A i, j \in DOMAIN wst :
          (Batch(i) < Batch(j) /\ wst[j] # "new") => wst[i] = "done"
    /\ \A i \in DOMAIN wst : wst[i] # "new" => Batch(i) <= chunk_start \div CHUNK
    /\ Cardinality(Chunk) <= CHUNK

C19_Witness ==
    /\ pc = "gather" /\ chunk_start = CHUNK /\ Len(results) = CHUNK
    /\ Len(centers) > CHUNK
    /\ \E i \in DOMAIN wst : i > CHUNK /\ wst[i] = "open"
    /\ \A i \in 1..CHUNK : wst[i] = "done"

\* C20: a page opened by extract_email_from_detail is closed before the call
\* returns, with or without an email and after any failure once the page is
\* open: a call returns only from the closing of its page, releasing its
\* permit, and when all tasks have returned no page is open and every permit
\* is back.
C20_PagesClosed ==
    /\ [][ \A i \in DOMAIN wst \cap DOMAIN wst' :
              /\ (wst'[i] = "done" /\ wst[i] # "done")
                    => (wst[i] = "closing" /\ sem' = sem + 1)
              /\ (wst[i] = "open" /\ wst'[i] # "open")
                    => wst'[i] \in {"closing", "cancelled"}
         ]_vars
    /\ [](pc \in {"csv", "done"} =>
             /\ \A i \in DOMAIN wst : wst[i] = "done"
             /\ InProgress = {}
             /\ sem = CONCURRENCY)

C20_Witness ==
    /\ pc = "done" /\ Len(centers) = 1 /\ wst = <<"done">> /\ sem = CONCURRENCY
    /\ PageOf(1).up = "maybe" /\ PageOf(1).html # <<>> /\ visits = <<1>>
    /\ email = <<NoEmail>>

====
